---- MODULE Spec2Model ----
(***************************************************************************)
(* Model of the daily-summary aggregate extraction                         *)
(* (HighchartsDaySummarySearchList.get_day_summary_vectors, and its legacy *)
(* twin getDaySummaryVectors), of the wind rose (HighchartsWindRose: its   *)
(* construction, calc_windrose and get_extension_list), of the week search *)
(* list (HighchartsWeek.get_extension_list) and of get_ago of              *)
(* weewx-highcharts.                                                       *)
(*                                                                         *)
(* Numbers are exact rationals [k |-> "num", n, d] (n/d in lowest terms,   *)
(* d > 0); Python's None, a square root that is kept symbolic and a raised *)
(* ZeroDivisionError are values of the same shape with another tag k.      *)
(* Times are epoch seconds; local time is taken to be UTC without          *)
(* daylight saving, so a calendar day is 86400 s long and starts at a      *)
(* multiple of 86400.                                                      *)
(***************************************************************************)
EXTENDS Integers, Sequences, FiniteSets

VARIABLES
    pc,             \* "idle", "dsv_done", "wr_ready", "wr_bin", "wr_done", "wr_failed",
                    \* "ago_done", "gel_loop", "gel_calc", "gel_done", "week_done"
    \* ---- get_day_summary_vectors(db_manager, obs_type, timespan, agg_list)
    table_exists,   \* whether archive_day_<obs_type> exists in the database
    table,          \* the rows of archive_day_<obs_type>, in dateTime order
    timespan,       \* [start, stop]
    agg_list,       \* the requested aggregates, a Python list
    sql_fields,     \* "scalar" or "vector": the field list of the query
    cursor,         \* "none", "open", "closed"
    time_vec,       \* the returned time vector
    ret,            \* the returned dictionary: aggregate -> vector
    err,            \* "none" or the exception that left the handler
    \* ---- HighchartsWindRose
    petals,         \* self.petals
    directions,     \* self.directions: the sector labels
    calm_limit,     \* self.calm_limit
    precision,      \* self.precision
    speedfactor,    \* self.speedfactor, indexed 0..6
    show_band_percent, \* self.show_band_percent
    period,         \* the period argument of calc_windrose, in seconds
    wr_stop,        \* timespan.stop of calc_windrose
    t_span,         \* the span the vectors are read over
    wr_source,      \* "none", "series" (xtypes.get_series) or "day_summary"
    speed_vec,      \* speed_vec_vt.value (converted), a sequence
    direction_vec,  \* direction_vec_vt.value, a sequence
    speed_list,     \* the band boundaries, indexed 0..6
    wind_bin,       \* wind_bin[band][sector], band 0..6, sector 0..petals-1
    speed_bin,      \* speed_bin[band], band 0..6
    dir_bin,        \* dir_bin[sector]: the samples counted in a sector
    max_y_axis,     \* the y axis maximum
    calm_percent,   \* the number of calm_percent_str
    legend_labels,  \* legend_labels[band]: the bounds and the percentage of the label
    windrosejson,   \* wr_dict['windrosejson']: a sequence of series
    windrosenolabeljson, \* wr_dict['windrosenolabeljson']
    i,              \* the loop index of the binning loop (samples done)
    \* ---- get_ago(dt, d_years, d_months)
    ago_dt,         \* the date argument dt: [year, month, day]
    d_years,        \* the argument d_years
    d_months,       \* the argument d_months
    ago_ret,        \* the returned date
    \* ---- HighchartsWindRose: the source, the aggregation and the bullseye
    source,         \* self.source: the speed observation
    self_dir,       \* self.dir: the direction observation
    agg_type,       \* self.agg_type: "None", "avg", "max" or "min"
    agg_interval,   \* self.agg_interval in seconds, 0 for None
    bullseye_size,  \* self.bullseye_size
    \* ---- HighchartsWindRose.get_extension_list(timespan, db_lookup)
    call,           \* "none", "first" or "second": the call of get_extension_list
                    \* that runs on the instance
    archive,        \* the archive records [ago, sample]: ago is the seconds of
                    \* the record before timespan.stop
    converter,      \* the factor of self.generator.converter
    period_list,    \* _period_list: the names of the configured periods
    done,           \* the periods of _period_list that are done
    sle_dict,       \* sle_dict: key -> wr_dict
    first_dict,     \* the sle_dict the first call returned
    \* ---- HighchartsWeek.get_extension_list(timespan, db_lookup)
    week_unknown,   \* the observation types get_series knows nothing of
    week_records,   \* the archive records of the week, each [stop, value]: every
                    \* known series other than rain is read from them
    rain_records,   \* the hourly rain sums get_series returns, each [stop, value],
                    \* stop in seconds
    search_list_extension \* the returned dictionary: key -> JSON value

dsvVars == <<table_exists, table, timespan, agg_list, sql_fields, cursor, time_vec, ret>>
wrCfgVars == <<petals, directions, calm_limit, precision, speedfactor, show_band_percent, source, self_dir, agg_type, agg_interval, bullseye_size>>
wrArgVars == <<period, wr_stop, t_span, wr_source, speed_vec, direction_vec, speed_list>>
wrOutVars == <<max_y_axis, calm_percent, legend_labels, windrosejson, windrosenolabeljson>>
wrRunVars == <<wrArgVars, wind_bin, speed_bin, dir_bin, i, wrOutVars>>
agoVars == <<ago_dt, d_years, d_months, ago_ret>>
gelVars == <<call, archive, converter, period_list, done, sle_dict, first_dict>>
weekVars == <<week_unknown, week_records, rain_records, search_list_extension>>
vars == <<pc, err, dsvVars, wrCfgVars, wrRunVars, agoVars, gelVars, weekVars>>

----
\* Bounds of the model

\* the most rows (calendar days) a day-summary table holds
MaxDays == 2

\* the most samples a wind rose is computed from
MaxSamples == 3

----
\* Values

\* Python's None
None == [k |-> "None", n |-> 0, d |-> 0]

\* the value of an expression whose evaluation raised ZeroDivisionError
ZeroDivisionError == [k |-> "ZeroDivisionError", n |-> 0, d |-> 0]

Abs(a) == IF a < 0 THEN -a ELSE a

RECURSIVE GCD(_, _)
GCD(a, b) == IF b = 0 THEN a ELSE GCD(b, a % b)

\* the number n/d (d # 0), in lowest terms with a positive denominator
Num(n, d) ==
    LET g == GCD(Abs(n), Abs(d))
        s == IF d < 0 THEN -1 ELSE 1
    IN  [k |-> "num", n |-> (s * n) \div g, d |-> (s * d) \div g]

Whole(n) == Num(n, 1)

IsNum(v) == v.k = "num"

\* a / b of two numbers; Python raises ZeroDivisionError when b is zero
Div(a, b) == IF b.n = 0 THEN ZeroDivisionError ELSE Num(a.n * b.d, a.d * b.n)

Add(a, b) == Num(a.n * b.d + b.n * a.d, a.d * b.d)

Mul(a, b) == Num(a.n * b.n, a.d * b.d)

\* a <= b and a < b of two numbers
Le(a, b) == a.n * b.d <= b.n * a.d

Lt(a, b) == a.n * b.d < b.n * a.d

\* int(a): truncation toward zero
Trunc(a) == IF a.n >= 0 THEN a.n \div a.d ELSE -((-a.n) \div a.d)

\* math.sqrt(v), kept symbolic: [k |-> "sqrt", n, d] is the square root of n/d.
\* An operand whose evaluation raised keeps the exception.
Sqrt(v) == IF v.k = "ZeroDivisionError" THEN v ELSE [k |-> "sqrt", n |-> v.n, d |-> v.d]

\* math.degrees(math.atan2(y, x)) in whole degrees, for the arguments that give
\* a multiple of 45 degrees: one of x, y zero, or |x| = |y|
Atan2Deg(y, x) ==
    CASE y = 0 /\ x >= 0 -> 0
      [] y > 0 /\ x > 0  -> 45
      [] y > 0 /\ x = 0  -> 90
      [] y > 0 /\ x < 0  -> 135
      [] y = 0 /\ x < 0  -> 180
      [] y < 0 /\ x < 0  -> -135
      [] y < 0 /\ x = 0  -> -90
      [] y < 0 /\ x > 0  -> -45

----
\* Day summary records

\* weeutil.weeutil.startOfDay(time_ts): the start of the calendar day of time_ts
startOfDay(time_ts) == time_ts - (time_ts % 86400)

\* a row of a day summary table of a vector type (the dateTime is set by Table)
Row(min, mintime, max, maxtime, sum, count, wsum, sumtime, max_dir, xsum, ysum, wsquaresum) ==
    [dateTime |-> 0, min |-> min, mintime |-> mintime, max |-> max, maxtime |-> maxtime,
     sum |-> sum, count |-> count, wsum |-> wsum, sumtime |-> sumtime,
     max_dir |-> max_dir, xsum |-> xsum, ysum |-> ysum, wsquaresum |-> wsquaresum]

\* a day without samples: count 0, every sum 0, no extrema
EmptyDay == Row(None, 0, None, 0, 0, 0, 0, 0, None, 0, 0, 0)

\* the rows a day can hold
DayRows ==
    { EmptyDay,
      \* sum=50, wsum=500, sumtime=50, count=10; a pure easterly resultant
      Row(Whole(3), 100, Whole(8), 200, 50, 10, 500, 50, Whole(90), 1, 0, 5000),
      \* samples, but a zero sum of weighted times; a pure northerly resultant
      Row(Whole(1), 300, Whole(2), 400, 3, 2, 3, 0, Whole(0), 0, 1, 5),
      Row(Whole(2), 500, Whole(9), 600, 14, 4, 7, 2, Whole(315), -1, 1, 18),
      Row(Whole(0), 700, Whole(4), 800, 6, 2, 6, 4, Whole(45), 1, 1, 16),
      Row(Whole(1), 900, Whole(5), 1000, 8, 3, 9, 3, Whole(225), -1, -1, 27),
      \* samples whose vector sums cancel
      Row(Whole(1), 1300, Whole(7), 1400, 8, 3, 9, 3, Whole(180), 0, 0, 12) }

\* the table holding the rows of `days`, one per calendar day from day 0 on
Table(days) == [d \in 1..Len(days) |-> [days[d] EXCEPT !.dateTime = (d - 1) * 86400]]

RECURSIVE SeqsUpTo(_, _)
\* the sequences over S of length at most n
SeqsUpTo(S, n) ==
    IF n = 0 THEN {<<>>}
    ELSE LET shorter == SeqsUpTo(S, n - 1)
         IN  shorter \cup {Append(s, x) : s \in {t \in shorter : Len(t) = n - 1}, x \in S}

\* the time stamps a time span is drawn from: midnight and noon of every day
Times == {h * 43200 : h \in 0..(2 * MaxDays)}

\* the aggregate lists asked for
AggLists ==
    { <<"max">>, <<"avg">>, <<"vecdir">>, <<"foo">>,
      <<"max", "min">>,
      <<"min", "max", "mintime", "maxtime", "sum", "count">>,
      <<"avg", "rms", "vecavg">>,
      <<"gustdir", "vecdir", "avg">>,
      <<"max", "foo", "vecdir">>,
      <<"max", "max">>,
      <<"count", "foo", "count">> }

----
\* get_day_summary_vectors

\* the aggregates that need the fields of a vector type
vector_aggs == {"gustdir", "rms", "vecavg", "vecdir"}

\* the field list of the query: the vector fields when any requested aggregate
\* is a vector aggregate, else the scalar fields
SqlFields(aggs) ==
    IF \E j \in 1..Len(aggs) : aggs[j] \in vector_aggs THEN "vector" ELSE "scalar"

\* a query whose stop boundary is inclusive
DaySummaryQueryToStop(rows, start, stop) ==
    SelectSeq(rows, LAMBDA rec : rec.dateTime >= start /\ rec.dateTime <= stop)

\* the rows of the query: WHERE dateTime >= start AND dateTime < stop
DaySummaryQuery(rows, start, stop) ==
    SelectSeq(rows, LAMBDA rec : rec.dateTime >= start /\ rec.dateTime < stop)

\* an average from the plain sum and count
AvgOfSum(rec) ==
    IF rec.count # 0 THEN Div(Whole(rec.sum), Whole(rec.count)) ELSE None

\* the weighted average of a row: wsum / sumtime when count is truthy
Avg(rec) ==
    IF rec.count # 0 THEN Div(Whole(rec.wsum), Whole(rec.sumtime)) ELSE None

\* a resultant direction that is computed whenever the sums are not both zero
VecdirOfAnyResultant(rec) ==
    IF rec.xsum = 0 /\ rec.ysum = 0 THEN None
    ELSE LET deg == 90 - Atan2Deg(rec.ysum, rec.xsum)
         IN  IF deg >= 0 THEN Whole(deg) ELSE Whole(deg + 360)

\* the resultant direction of a row
Vecdir(rec) ==
    IF rec.xsum = 0 /\ rec.ysum = 0 THEN None
    ELSE IF rec.xsum # 0 /\ rec.ysum # 0
         THEN LET deg == 90 - Atan2Deg(rec.ysum, rec.xsum)
              IN  IF deg >= 0 THEN Whole(deg) ELSE Whole(deg + 360)
         ELSE None

\* an unknown aggregate that keeps the value of the branch before it
UnknownAggAsMax(rec) == rec.max

\* the value of an aggregate that is none of the known ones
UnknownAgg(rec) == None

\* the value of aggregate agg for row rec
Aggregate(rec, agg) ==
    CASE agg = "min"     -> rec.min
      [] agg = "max"     -> rec.max
      [] agg = "sum"     -> Whole(rec.sum)
      [] agg = "gustdir" -> rec.max_dir
      [] agg = "mintime" -> IF rec.mintime # 0 THEN Whole(rec.mintime) ELSE None
      [] agg = "maxtime" -> IF rec.maxtime # 0 THEN Whole(rec.maxtime) ELSE None
      [] agg = "count"   -> IF rec.count # 0 THEN Whole(rec.count) ELSE None
      [] agg = "avg"     -> Avg(rec)
      [] agg = "rms"     ->
            IF rec.count # 0
            THEN Sqrt(Div(Whole(rec.wsquaresum), Whole(rec.sumtime)))
            ELSE None
      [] agg = "vecavg"  ->
            IF rec.count # 0
            THEN Sqrt(Div(Whole(rec.xsum * rec.xsum + rec.ysum * rec.ysum),
                          Whole(rec.sumtime * rec.sumtime)))
            ELSE None
      [] agg = "vecdir"  -> Vecdir(rec)
      [] OTHER           -> UnknownAgg(rec)

\* an index that is the first vector whatever the aggregate
ListIndexFirstVector(aggs, agg) == 1

\* agg_list.index(agg): the first position of agg in the list (from 1)
ListIndex(aggs, agg) ==
    CHOOSE j \in 1..Len(aggs) :
        aggs[j] = agg /\ \A h \in 1..(j - 1) : aggs[h] # agg

RECURSIVE AggLoop(_, _, _, _)
\* the loop over the aggregates for one row, from position j on: the value of
\* each is appended to _vec[agg_list.index(agg)]
AggLoop(vec, rec, aggs, j) ==
    IF j > Len(aggs) THEN vec
    ELSE AggLoop([vec EXCEPT ![ListIndex(aggs, aggs[j])] =
                                  Append(@, Aggregate(rec, aggs[j]))],
                 rec, aggs, j + 1)

RECURSIVE RecLoop(_, _, _, _)
\* the loop over the rows of the query, from row r on
RecLoop(vec, recs, aggs, r) ==
    IF r > Len(recs) THEN vec
    ELSE RecLoop(AggLoop(vec, recs[r], aggs, 1), recs, aggs, r + 1)

\* the time vector: the dateTime of every row of the query
TimeVec(recs) == [r \in 1..Len(recs) |-> recs[r].dateTime]

\* whether computing an aggregate of a row raises
Raises(recs, aggs) ==
    \E r \in 1..Len(recs), j \in 1..Len(aggs) :
        Aggregate(recs[r], aggs[j]).k = "ZeroDivisionError"

\* a cursor that is closed only when the loop over the rows ends normally
CursorAfterNoFinally(raised) == IF raised THEN "open" ELSE "closed"

\* the cursor when get_day_summary_vectors is left: _cursor.close() is in the
\* finally clause of the try around the query and the loop over its rows
CursorAfter(raised) == "closed"

\* the outcome of get_day_summary_vectors: the exception that leaves it, or the
\* time vector and the dictionary of the aggregate vectors
GetDaySummaryVectors(exists, rows, span, aggs) ==
    LET recs == DaySummaryQuery(rows, startOfDay(span.start), span.stop)
        vec  == RecLoop([j \in 1..Len(aggs) |-> <<>>], recs, aggs, 1)
    IN  IF ~exists
        THEN [err |-> "OperationalError", time_vec |-> <<>>, ret |-> <<>>]
        ELSE IF Raises(recs, aggs)
        THEN [err |-> "ZeroDivisionError", time_vec |-> <<>>, ret |-> <<>>]
        ELSE [err |-> "none", time_vec |-> TimeVec(recs),
              ret |-> [agg \in {aggs[j] : j \in 1..Len(aggs)} |->
                          vec[ListIndex(aggs, agg)]]]

----
\* HighchartsWindRose

default_petals == 8

default_bullseye_size == 3

\* the longest period, in seconds, that is read from the archive: a week
Week == 604800

default_speedfactor ==
    [b \in 0..6 |-> <<Num(0, 1), Num(1, 10), Num(2, 10), Num(3, 10), Num(5, 10),
                      Num(7, 10), Num(1, 1)>>[b + 1]]

\* dir_lookup.get(p, dir_lookup[16]): the sector labels for p petals
dir_lookup(p) ==
    CASE p = 8 -> <<"N", "NE", "E", "SE", "S", "SW", "W", "NW">>
      [] p = 4 -> <<"N", "E", "S", "W">>
      [] OTHER -> <<"N", "NNE", "NE", "ENE", "E", "ESE", "SE", "SSE",
                    "S", "SSW", "SW", "WSW", "W", "WNW", "NW", "NNW">>

\* petals = self.default_petals if petals is None or petals == 0 else petals
Petals(p) == IF p = 0 THEN default_petals ELSE p

\* a speedfactor element that float() cannot convert
NotANumber == [k |-> "text", n |-> 0, d |-> 1]

\* the default speedfactor as the list the configuration would hold
DefaultFactors ==
    <<Num(0, 1), Num(1, 10), Num(2, 10), Num(3, 10), Num(5, 10), Num(7, 10), Num(1, 1)>>

\* the configured speedfactor lists: none (the default), increasing fractions
\* other than the default, fractions that are not in order, too few entries, an
\* entry above 1, an entry below 0, an entry that is not a number
SpeedfactorOptions ==
    { DefaultFactors,
      <<Num(0, 1), Num(2, 10), Num(4, 10), Num(5, 10), Num(6, 10), Num(8, 10), Num(1, 1)>>,
      <<Num(0, 1), Num(5, 10), Num(2, 10), Num(3, 10), Num(5, 10), Num(7, 10), Num(1, 1)>>,
      <<Num(0, 1), Num(5, 10), Num(1, 1)>>,
      <<Num(0, 1), Num(1, 10), Num(2, 10), Num(3, 10), Num(5, 10), Num(7, 10), Num(3, 2)>>,
      <<Num(-1, 10), Num(1, 10), Num(2, 10), Num(3, 10), Num(5, 10), Num(7, 10), Num(1, 1)>>,
      <<Num(0, 1), NotANumber, Num(2, 10), Num(3, 10), Num(5, 10), Num(7, 10), Num(1, 1)>> }

\* self.speedfactor of a configured list sf: the default when an entry is not a
\* number, when there are not 7 entries, or when an entry is above 1.0 or below 0.0
Speedfactor(sf) ==
    LET floats == IF \E j \in 1..Len(sf) : sf[j] = NotANumber THEN DefaultFactors ELSE sf
        valid  == /\ Len(floats) = 7
                  /\ \A j \in 1..Len(floats) : Le(floats[j], Whole(1)) /\ Le(Whole(0), floats[j])
    IN  [b \in 0..6 |-> (IF valid THEN floats ELSE DefaultFactors)[b + 1]]

\* the configured petal counts: 0 stands for a count that is absent or zero
PetalOptions == {0, 4, 5, 8, 16}

\* the configured calm limits: the default 0.1, and 5
CalmLimits == {Num(1, 10), Whole(5)}

\* the configured precisions
Precisions == {0, 1}

\* the configured sources: the two speed observations, a direction observation
\* and a name that is no observation of the archive
Sources == {"windSpeed", "windGust", "windGustDir", "foo"}

\* the text options that are converted with to_int or float
NumericOptions == {"petals", "precision", "bullseye_size", "calm_limit"}

\* the configured aggregate types: absent, the three accepted ones and another
AggregateTypes == {"None", "avg", "max", "min", "sum"}

\* the configured aggregate intervals: absent or zero, an hour
AggregateIntervals == {0, 3600}

\* self.dir of a source
Dir(src) == IF src = "windGustDir" THEN "windGustDir" ELSE "windDir"

\* self.agg_type of a configured aggregate type
AggType(type) == IF type \in {"None", "avg", "max", "min"} THEN type ELSE "None"

\* self.agg_interval of a configuration: the configured interval when there is
\* an aggregate type and the interval is above 0, else None (0)
AggInterval(type, interval) ==
    IF AggType(type) # "None" /\ interval > 0 THEN interval ELSE 0

\* the observation types the archive has a column for
ArchiveTypes == {"windSpeed", "windGust", "windDir", "windGustDir"}

\* the exception of weewx.xtypes.get_series(obs_type, ...): UnknownType when
\* the archive has no column of that name
GetSeriesRaises(obs_type) == IF obs_type \in ArchiveTypes THEN "none" ELSE "UnknownType"

\* the [Extras][WindRose] dictionaries a wind rose is constructed from;
\* not_a_number names the option whose text is not a number, if there is one
WindroseDicts ==
    { c \in [petals : PetalOptions, calm_limit : CalmLimits, precision : Precisions,
             show_band_percent : BOOLEAN, speedfactor : SpeedfactorOptions,
             source : Sources, not_a_number : NumericOptions \cup {"none"},
             aggregate_type : AggregateTypes, aggregate_interval : AggregateIntervals] :
        \/ /\ c.petals = 8 /\ c.calm_limit = Num(1, 10) /\ c.precision = 1
           /\ c.show_band_percent
           /\ c.speedfactor = DefaultFactors
           /\ c.aggregate_type = "None" /\ c.aggregate_interval = 0
           /\ \/ c.source = "windSpeed" /\ c.not_a_number # "none"
              \/ c.source = "foo" /\ c.not_a_number = "none"
        \/ /\ c.not_a_number = "none"
           /\ c.petals \in {0, 8} => /\ c.source = "windSpeed"
                                     /\ c.aggregate_type \in {"None", "sum"}
           /\ c.petals = 16 => /\ c.source = "windSpeed"
                               /\ c.aggregate_type = "avg" /\ c.aggregate_interval = 3600
           /\ c.petals = 4 => /\ c.source = "windGust"
                              /\ c.aggregate_type = "max" /\ c.aggregate_interval = 0
           /\ c.petals = 5 => /\ c.source = "windGustDir"
                              /\ c.aggregate_type = "None" /\ c.aggregate_interval = 3600
           /\ \/ /\ c.petals \in {0, 8} /\ c.calm_limit = Num(1, 10) /\ c.precision = 1
                 /\ c.show_band_percent
                 /\ Speedfactor(c.speedfactor) = default_speedfactor
              \/ /\ c.petals = 16 /\ c.calm_limit = Num(1, 10) /\ c.precision = 1
                 /\ c.show_band_percent
                 /\ c.speedfactor[2] = Num(2, 10)
              \/ /\ c.petals = 4 /\ c.calm_limit = Whole(5) /\ c.precision = 0
                 /\ ~c.show_band_percent
                 /\ c.speedfactor = DefaultFactors
              \/ /\ c.petals = 5 /\ c.calm_limit = Num(1, 10) /\ c.precision = 1
                 /\ c.show_band_percent
                 /\ c.speedfactor = DefaultFactors
              \/ /\ c.petals = 8 /\ c.calm_limit = Whole(5) /\ c.precision = 1
                 /\ c.show_band_percent
                 /\ c.speedfactor[2] = Num(5, 10) /\ Len(c.speedfactor) = 7 }

\* the period arguments of calc_windrose: a week, a week and a second
Periods == {Week, Week + 1}

\* the shortest period, in seconds, that sets the aggregation of a month
Month == 2678400

\* the period lists configured: one period, two periods in either order, a
\* period of the archive with a period of the day summaries in either order
PeriodLists ==
    {<<"day">>, <<"day", "week">>, <<"week", "day">>, <<"year", "day">>, <<"day", "year">>}

\* the period in seconds of a period name when the report ends at stop, without
\* a daylight saving change: a day, 7 days, or the time since midnight of the
\* same date a year ago, the year being a common year
PeriodSeconds(name, stop) ==
    CASE name = "day"  -> 86400
      [] name = "week" -> 7 * 86400
      [] name = "year" -> stop - (startOfDay(stop) - 365 * 86400)

\* the key of sle_dict for a period name: 'wr' and the name
Key(name) ==
    CASE name = "day"  -> "wrday"
      [] name = "week" -> "wrweek"
      [] name = "year" -> "wryear"

\* the archives get_extension_list reads: records an hour and more than a day
\* before the end of the report, a record more than a day before it only, and
\* no record
Archives ==
    { <<[ago |-> 100000, sample |-> [speed |-> Whole(5), direction |-> Whole(45)]],
        [ago |-> 3600, sample |-> [speed |-> Whole(10), direction |-> Whole(315)]],
        [ago |-> 0, sample |-> [speed |-> Num(1, 10), direction |-> Whole(45)]]>>,
      <<[ago |-> 100000, sample |-> [speed |-> Whole(5), direction |-> Whole(45)]]>>,
      <<>> }

\* the day summaries get_extension_list reads: an easterly day and a
\* north-westerly one
SummaryDays ==
    <<Row(Whole(3), 100, Whole(8), 200, 50, 10, 500, 50, Whole(90), 1, 0, 5000),
      Row(Whole(2), 500, Whole(9), 600, 14, 4, 7, 2, Whole(315), -1, 1, 18)>>

\* a series that is aggregated over self.agg_interval when there is one: a
\* value per interval
GetSeriesAggregated(records, start, stop) ==
    LET inside == SelectSeq(records, LAMBDA r : start <= stop - r.ago /\ stop - r.ago <= stop)
    IN  IF agg_interval = 0 \/ Len(inside) = 0
        THEN [s \in 1..Len(inside) |-> inside[s].sample]
        ELSE <<inside[1].sample>>

\* weewx.xtypes.get_series without an aggregate: the records of the archive
\* with start <= dateTime <= stop, in time order
GetSeries(records, start, stop) ==
    LET inside == SelectSeq(records, LAMBDA r : start <= stop - r.ago /\ stop - r.ago <= stop)
    IN  [s \in 1..Len(inside) |-> inside[s].sample]

\* a period that is read from the day summaries only when it is a week or more
UsesSeriesBelowWeek(seconds) == seconds < Week

\* if period <= 604800: the vectors come from the archive
UsesSeries(seconds) == seconds <= Week

\* the factors of self.generator.converter.convert: 1 when the display unit is the
\* database unit, 5/18 from km/h to m/s
UnitFactors == {Whole(1), Num(5, 18)}

\* converter.convert of a vector: every number is scaled, None stays None
Convert(vec, factor) ==
    [s \in 1..Len(vec) |-> IF vec[s] = None THEN None ELSE Mul(vec[s], factor)]

\* converter.convert of the speeds of a series of samples
ConvertSamples(vec, factor) ==
    [s \in 1..Len(vec) |->
        [speed     |-> IF vec[s].speed = None THEN None ELSE Mul(vec[s].speed, factor),
         direction |-> vec[s].direction]]

\* the samples of a wind rose: a speed in display units and a direction in degrees,
\* either of which may be None
Samples ==
    { [speed |-> None,       direction |-> Whole(90)],
      [speed |-> Whole(5),   direction |-> None],
      [speed |-> Num(1, 10), direction |-> Whole(45)],
      [speed |-> Whole(5),   direction |-> Whole(45)],
      [speed |-> Whole(10),  direction |-> Whole(315)] }

\* a maximum speed without a default: 0 when there is no speed
MaxSpeedNoDefault(speeds) ==
    LET nums == {speeds[s] : s \in {t \in 1..Len(speeds) : speeds[t] # None}}
    IN  IF nums = {} THEN Whole(0)
        ELSE CHOOSE m \in nums : \A v \in nums : Le(v, m)

\* max([v for v in speed_vec_vt.value if v is not None]), or 10 when there is none
MaxSpeed(speeds) ==
    LET nums == {speeds[s] : s \in {t \in 1..Len(speeds) : speeds[t] # None}}
    IN  IF nums = {} THEN Whole(10)
        ELSE CHOOSE m \in nums : \A v \in nums : Le(v, m)

\* a range that is max_speed rounded up to a multiple of 10: ceil(max_speed / 10) * 10
MaxSpeedRangeCeil(max_speed) ==
    LET tenth == Div(max_speed, Whole(10))
    IN  IF tenth.d = 1 THEN tenth.n * 10 ELSE (Trunc(tenth) + 1) * 10

\* max_speed_range = (int(max_speed / 10.0) + 1) * 10
MaxSpeedRange(max_speed) == (Trunc(Div(max_speed, Whole(10))) + 1) * 10

\* speed_list: 0, then speedfactor[b] * max_speed_range for b in 1..6
SpeedList(factors, max_speed_range) ==
    [b \in 0..6 |-> IF b = 0 THEN Whole(0) ELSE Mul(factors[b], Whole(max_speed_range))]

\* a calm test that excludes the limit itself
CalmSpeedBelow(speed, limit) == Lt(speed, limit)

\* speed <= self.calm_limit
CalmSpeed(speed, limit) == Le(speed, limit)

\* a sector index that is not wrapped to the number of petals
BinNumNoWrap(direction, p) == Trunc(Div(Add(direction, Num(45, 4)), Num(45, 2)))

\* bin_num = int((direction + 11.25) / 22.5) % self.petals
BinNum(direction, p) == Trunc(Div(Add(direction, Num(45, 4)), Num(45, 2))) % p

\* a band chain whose comparisons include the boundary
SpeedBandInclusive(speed, speeds) ==
    CASE Le(speeds[5], speed) -> 6
      [] Le(speeds[4], speed) -> 5
      [] Le(speeds[3], speed) -> 4
      [] Le(speeds[2], speed) -> 3
      [] Le(speeds[1], speed) -> 2
      [] Lt(Whole(0), speed)  -> 1
      [] OTHER                -> 0

\* the band of a speed above the calm limit
SpeedBand(speed, speeds) ==
    CASE Lt(speeds[5], speed) -> 6
      [] Lt(speeds[4], speed) -> 5
      [] Lt(speeds[3], speed) -> 4
      [] Lt(speeds[2], speed) -> 3
      [] Lt(speeds[1], speed) -> 2
      [] Lt(Whole(0), speed)  -> 1
      [] OTHER                -> 0

\* round(v, places) of a number v >= 0: to the nearest multiple of 10^-places, a
\* tie to the even one
Round(v, places) ==
    LET scale  == IF places = 0 THEN 1 ELSE 10
        scaled == Mul(v, Whole(scale))
        low    == scaled.n \div scaled.d
        twice  == 2 * (scaled.n - low * scaled.d)
    IN  IF twice < scaled.d \/ (twice = scaled.d /\ low % 2 = 0)
        THEN Num(low, scale)
        ELSE Num(low + 1, scale)

\* round_int(v, 0) = int(round(v, 0))
round_int(v) == Trunc(Round(v, 0))

\* a percentage factor over one sample more than there are
PcentFactorPlusOne(samples) == Div(Whole(100), Whole(samples + 1))

\* pcent_factor = 100.0 / samples, for samples > 0
PcentFactor(samples) == Div(Whole(100), Whole(samples))

\* a y axis maximum that is max_dir_percent rounded up to a multiple of 10
MaxYAxisCeil(max_dir_percent) ==
    LET tenth == Div(max_dir_percent, Whole(10))
    IN  IF tenth.d = 1 THEN tenth.n * 10 ELSE (Trunc(tenth) + 1) * 10

\* max_y_axis = 10.0 * (1 + int(max_dir_percent / 10.0))
MaxYAxis(max_dir_percent) == 10 * (1 + Trunc(Div(max_dir_percent, Whole(10))))

\* the bands of the series in ascending order
JsonBandsAscending == <<1, 2, 3, 4, 5, 6>>

\* the bands of the series of windrosejson, in the order they are written: band
\* 6, then the loop from 5 down to 1
JsonBands == <<6, 5, 4, 3, 2, 1>>

\* the largest entry of dir_bin
MaxOf(bins) == CHOOSE m \in {bins[s] : s \in DOMAIN bins} : \A s \in DOMAIN bins : bins[s] <= m

RECURSIVE SumOver(_, _)
\* the sum of f[s] over the s of S
SumOver(f, S) ==
    IF S = {} THEN 0
    ELSE LET s == CHOOSE t \in S : TRUE IN f[s] + SumOver(f, S \ {s})

RECURSIVE SumNum(_, _)
\* the sum of the numbers f[s] over the s of S
SumNum(f, S) ==
    IF S = {} THEN Whole(0)
    ELSE LET s == CHOOSE t \in S : TRUE IN Add(f[s], SumNum(f, S \ {s}))

----
\* The week search list

\* the observation types of the week plots, in the order they are read
WeekSeries ==
    <<"outTemp", "dewpoint", "appTemp", "windchill", "heatindex", "outHumidity",
      "barometer", "windSpeed", "windGust", "windDir", "rain", "radiation",
      "maxSolarRad", "UV">>

\* the key of search_list_extension for an observation type
WeekKey(obs_type) ==
    CASE obs_type = "outTemp"     -> "outTempWeekjson"
      [] obs_type = "dewpoint"    -> "dewpointWeekjson"
      [] obs_type = "appTemp"     -> "appTempWeekjson"
      [] obs_type = "windchill"   -> "windchillWeekjson"
      [] obs_type = "heatindex"   -> "heatindexWeekjson"
      [] obs_type = "outHumidity" -> "outHumidityWeekjson"
      [] obs_type = "barometer"   -> "barometerWeekjson"
      [] obs_type = "windSpeed"   -> "windSpeedWeekjson"
      [] obs_type = "windGust"    -> "windGustWeekjson"
      [] obs_type = "windDir"     -> "windDirWeekjson"
      [] obs_type = "rain"        -> "rainWeekjson"
      [] obs_type = "radiation"   -> "radiationWeekjson"
      [] obs_type = "maxSolarRad" -> "insolationWeekjson"
      [] obs_type = "UV"          -> "uvWeekjson"

\* the sets of observation types that are unknown to get_series: none, one of
\* another database, rain, two at once
UnknownSets == {{}, {"appTemp"}, {"rain"}, {"maxSolarRad", "UV"}}

\* the archive records of the week: none, or two of which one has no value
WeekRecords ==
    { <<>>,
      <<[stop |-> 300, value |-> Num(41, 20)], [stop |-> 600, value |-> None]>> }

\* the hourly rain sums of get_series over a span: the stop of every interval
\* is an hour after the one before, but the last interval stops where the span
\* stops: after a whole hour, a second, or half an hour
RainRecords ==
    { <<>>,
      <<[stop |-> 1800, value |-> Num(1, 4)]>>,
      <<[stop |-> 3600, value |-> Num(0, 1)], [stop |-> 7200, value |-> Num(1, 4)]>>,
      <<[stop |-> 3600, value |-> Num(0, 1)], [stop |-> 5400, value |-> Num(1, 4)]>>,
      <<[stop |-> 3600, value |-> None], [stop |-> 7200, value |-> Num(3, 4)],
        [stop |-> 7201, value |-> Num(0, 1)]>> }

\* round_none(value, 1)
round_none(value) == IF value = None THEN None ELSE Round(value, 1)

\* t_ms_vector = [float(x) * 1000 for x in t_stop_vt.value]
TimeVectorMs(records) == [s \in 1..Len(records) |-> records[s].stop * 1000]

\* HighchartsWeek.get_vector: (None, None) for an observation type that is
\* unknown, else the converted and rounded values and the stop times in
\* milliseconds
get_vector(unknown, obs_type, records, factor) ==
    IF obs_type \in unknown
    THEN [none |-> TRUE, obs |-> <<>>, t_ms |-> <<>>]
    ELSE [none |-> FALSE,
          obs  |-> [s \in 1..Len(records) |->
                       round_none(Convert([r \in 1..Len(records) |-> records[r].value],
                                          factor)[s])],
          t_ms |-> TimeVectorMs(records)]

\* the rain time vector after lines 445-447: a last time less than 3600 after
\* the one before is set to 3600 after it
RainTimeVector(t) ==
    IF Len(t) > 1 /\ t[Len(t)] < t[Len(t) - 1] + 3600
    THEN [t EXCEPT ![Len(t)] = t[Len(t) - 1] + 3600]
    ELSE t

\* json_zip_vectors([vector], timestamp_vector): null for a vector that is
\* None, else the pairs of a time and a value
json_zip_vectors(vector, timestamp_vector) ==
    IF vector.none
    THEN [null |-> TRUE, pairs |-> <<>>]
    ELSE [null  |-> FALSE,
          pairs |-> [s \in 1..Len(vector.obs) |-> <<timestamp_vector[s], vector.obs[s]>>]]

----
\* get_ago

\* no date: the value of a date variable outside a call and after a raise
NoDate == [year |-> 0, month |-> 0, day |-> 0]

\* calendar.isleap(year)
isleap(year) == year % 4 = 0 /\ (year % 100 # 0 \/ year % 400 = 0)

\* calendar.monthrange(year, month)[1]: the days of the month
monthrange(year, month) ==
    <<31, 28, 31, 30, 31, 30, 31, 31, 30, 31, 30, 31>>[month]
        + (IF month = 2 /\ isleap(year) THEN 1 ELSE 0)

\* the years of the dates passed to get_ago, which are dates of timestamps: the
\* year of the epoch, a leap century year, the year after it, a leap year and a
\* common century year
AgoYears == {1970, 2000, 2001, 2024, 2100}

\* the days of the month of the dates passed to get_ago
AgoDays == {1, 15, 28, 29, 30, 31}

\* the dates passed to get_ago: the valid dates of the years and days above
AgoDates ==
    {dt \in [year : AgoYears, month : 1..12, day : AgoDays] :
        dt.day <= monthrange(dt.year, dt.month)}

\* the offsets get_extension_list passes: a month ago, a year ago
AgoOffsets == {[d_years |-> 0, d_months |-> -1], [d_years |-> -1, d_months |-> 0]}

\* a date d_years and d_months ago that keeps the day of the month
get_ago_same_day(dt, years, months) ==
    LET _y == dt.year + years
        _m == dt.month + months
        _a == (_m - 1) \div 12
    IN  [err |-> IF _y + _a < 1 THEN "ValueError" ELSE "none",
         ret |-> IF _y + _a < 1 THEN NoDate
                 ELSE [year |-> _y + _a, month |-> ((_m - 1) % 12) + 1, day |-> dt.day]]

\* get_ago(dt, d_years, d_months): the month number is taken modulo the year
\* with the carry added to the year, the day is cut to the end of the month;
\* date() raises ValueError for a year before year 1
get_ago(dt, years, months) ==
    LET _y   == dt.year + years
        _m   == dt.month + months
        _d   == dt.day
        _a   == (_m - 1) \div 12
        _m2  == (_m - 1) % 12
        _eom == monthrange(_y + _a, _m2 + 1)
    IN  [err |-> IF _y + _a < 1 THEN "ValueError" ELSE "none",
         ret |-> IF _y + _a < 1 THEN NoDate
                 ELSE [year |-> _y + _a, month |-> _m2 + 1,
                       day |-> IF _d <= _eom THEN _d ELSE _eom]]

----
\* The state machine

NoSpan == [start |-> 0, stop |-> 0]

\* the end of the report time span of a wind rose: the end of the last day
WrStops == {MaxDays * 86400}

Init ==
    /\ pc = "idle"
    /\ err = "none"
    /\ table_exists = TRUE
    /\ table = <<>>
    /\ timespan = NoSpan
    /\ agg_list = <<>>
    /\ sql_fields = "none"
    /\ cursor = "none"
    /\ time_vec = <<>>
    /\ ret = <<>>
    /\ petals = 0
    /\ directions = <<>>
    /\ calm_limit = None
    /\ precision = 0
    /\ speedfactor = <<>>
    /\ show_band_percent = TRUE
    /\ period = 0
    /\ wr_stop = 0
    /\ t_span = NoSpan
    /\ wr_source = "none"
    /\ speed_vec = <<>>
    /\ direction_vec = <<>>
    /\ speed_list = <<>>
    /\ wind_bin = <<>>
    /\ speed_bin = <<>>
    /\ dir_bin = <<>>
    /\ max_y_axis = 0
    /\ calm_percent = None
    /\ legend_labels = <<>>
    /\ windrosejson = <<>>
    /\ windrosenolabeljson = <<>>
    /\ i = 0
    /\ ago_dt = NoDate
    /\ d_years = 0
    /\ d_months = 0
    /\ ago_ret = NoDate
    /\ source = ""
    /\ self_dir = ""
    /\ agg_type = "None"
    /\ agg_interval = 0
    /\ bullseye_size = 0
    /\ call = "none"
    /\ archive = <<>>
    /\ converter = None
    /\ period_list = <<>>
    /\ done = 0
    /\ sle_dict = <<>>
    /\ first_dict = <<>>
    /\ week_unknown = {}
    /\ week_records = <<>>
    /\ rain_records = <<>>
    /\ search_list_extension = <<>>

\* a call of get_day_summary_vectors: the query runs, every row is processed
\* and the cursor is closed, also when an exception leaves the handler
CallGetDaySummaryVectors ==
    /\ pc = "idle"
    /\ \E exists \in BOOLEAN, days \in SeqsUpTo(DayRows, MaxDays),
          start \in Times, stop \in Times, aggs \in AggLists :
        /\ start <= stop
        /\ ~exists => days = <<>>
        /\ LET span == [start |-> start, stop |-> stop]
               out  == GetDaySummaryVectors(exists, Table(days), span, aggs)
           IN  /\ table_exists' = exists
               /\ table' = Table(days)
               /\ timespan' = span
               /\ agg_list' = aggs
               /\ sql_fields' = SqlFields(aggs)
               /\ cursor' = CursorAfter(out.err # "none")
               /\ time_vec' = out.time_vec
               /\ ret' = out.ret
               /\ err' = out.err
    /\ pc' = "dsv_done"
    /\ UNCHANGED <<wrCfgVars, wrRunVars>>
    /\ UNCHANGED agoVars
    /\ UNCHANGED gelVars
    /\ UNCHANGED weekVars

\* the exception that leaves HighchartsWindRose.__init__: to_int and float raise
\* ValueError for a text that is not a number, and only the conversion of the
\* speedfactor list is inside a try
ConstructRaises(windrose_dict) ==
    IF windrose_dict.not_a_number \in NumericOptions THEN "ValueError" ELSE "none"

\* HighchartsWindRose.__init__: the configuration is read; a petal count that is
\* absent or zero and a speedfactor list that is malformed are replaced by the
\* defaults; a text that is not a number makes the conversion of its option
\* raise, and then no instance is constructed
Construct ==
    /\ pc = "idle"
    /\ \E windrose_dict \in WindroseDicts :
        IF ConstructRaises(windrose_dict) # "none"
        THEN /\ err' = ConstructRaises(windrose_dict)
             /\ pc' = "wr_failed"
             /\ UNCHANGED wrCfgVars
        ELSE /\ source' = windrose_dict.source
             /\ self_dir' = Dir(windrose_dict.source)
             /\ agg_type' = AggType(windrose_dict.aggregate_type)
             /\ agg_interval' = AggInterval(windrose_dict.aggregate_type,
                                            windrose_dict.aggregate_interval)
             /\ speedfactor' = Speedfactor(windrose_dict.speedfactor)
             /\ petals' = Petals(windrose_dict.petals)
             /\ directions' = dir_lookup(Petals(windrose_dict.petals))
             /\ show_band_percent' = windrose_dict.show_band_percent
             /\ precision' = windrose_dict.precision
             /\ bullseye_size' = default_bullseye_size
             /\ calm_limit' = windrose_dict.calm_limit
             /\ err' = "none"
             /\ pc' = "wr_ready"
    /\ UNCHANGED <<dsvVars, wrRunVars>>
    /\ UNCHANGED agoVars
    /\ UNCHANGED gelVars
    /\ UNCHANGED weekVars

\* calc_windrose up to its binning loop: the speed and direction vectors are
\* read from the archive or from the day summaries, the band boundaries are set
\* and the bins are cleared; weewx.xtypes.get_series raises UnknownType for an
\* observation the archive has no column for, an exception of
\* get_day_summary_vectors leaves the handler, and the percentage factor
\* 100.0 / samples raises when there is no sample
CalcWindrose ==
    /\ pc \in {"wr_ready", "gel_calc"}
    /\ \E seconds \in (IF pc = "gel_calc" THEN {period} ELSE Periods),
          stop \in (IF pc = "gel_calc" THEN {wr_stop} ELSE WrStops) :
        /\ period' = seconds
        /\ wr_stop' = stop
        /\ IF UsesSeries(seconds)
           THEN /\ wr_source' = "series"
                /\ t_span' = [start |-> stop - seconds + 1, stop |-> stop]
                /\ IF GetSeriesRaises(source) # "none" \/ GetSeriesRaises(self_dir) # "none"
                   THEN /\ err' = "UnknownType"
                        /\ pc' = "wr_done"
                        /\ UNCHANGED <<speed_vec, direction_vec, speed_list>>
                   ELSE \E vec \in (IF pc = "gel_calc"
                                    THEN {ConvertSamples(GetSeries(archive, stop - seconds + 1, stop),
                                                         converter)}
                                    ELSE SeqsUpTo(Samples, MaxSamples)) :
                    /\ speed_vec' = [s \in 1..Len(vec) |-> vec[s].speed]
                    /\ direction_vec' = [s \in 1..Len(vec) |-> vec[s].direction]
                    /\ speed_list' =
                          SpeedList(speedfactor,
                                    MaxSpeedRange(MaxSpeed([s \in 1..Len(vec) |-> vec[s].speed])))
                    /\ err' = IF Len(vec) = 0 THEN "ZeroDivisionError" ELSE "none"
                    /\ pc' = IF Len(vec) = 0 THEN "wr_done" ELSE "wr_bin"
                /\ UNCHANGED dsvVars
           ELSE /\ wr_source' = "day_summary"
                /\ t_span' = [start |-> stop - seconds, stop |-> stop]
                /\ \E exists \in (IF pc = "gel_calc" THEN {table_exists} ELSE BOOLEAN),
                      days \in (IF pc = "gel_calc" THEN {table} ELSE SeqsUpTo(DayRows, MaxDays)),
                      factor \in (IF pc = "gel_calc" THEN {converter} ELSE UnitFactors) :
                    /\ ~exists => days = <<>>
                    /\ LET span   == [start |-> stop - seconds, stop |-> stop]
                           speed  == GetDaySummaryVectors(exists, Table(days), span, <<"avg">>)
                           dir    == GetDaySummaryVectors(exists, Table(days), span, <<"vecdir">>)
                           last   == IF speed.err = "none" THEN dir ELSE speed
                           speeds == Convert(speed.ret["avg"], factor)
                       IN  /\ table_exists' = exists
                           /\ table' = Table(days)
                           /\ timespan' = span
                           /\ agg_list' = IF speed.err = "none" THEN <<"vecdir">> ELSE <<"avg">>
                           /\ sql_fields' = "vector"
                           /\ cursor' = CursorAfter(last.err # "none")
                           /\ time_vec' = last.time_vec
                           /\ ret' = last.ret
                           /\ IF speed.err # "none"
                              THEN /\ err' = speed.err
                                   /\ pc' = "wr_done"
                                   /\ UNCHANGED <<speed_vec, direction_vec, speed_list>>
                              ELSE /\ speed_vec' = speeds
                                   /\ direction_vec' = dir.ret["vecdir"]
                                   /\ speed_list' =
                                         SpeedList(speedfactor, MaxSpeedRange(MaxSpeed(speeds)))
                                   /\ err' = IF Len(speeds) = 0
                                             THEN "ZeroDivisionError" ELSE "none"
                                   /\ pc' = IF Len(speeds) = 0 THEN "wr_done" ELSE "wr_bin"
    /\ wind_bin' = [b \in 0..6 |-> [s \in 0..(petals - 1) |-> 0]]
    /\ dir_bin' = [s \in 0..(petals - 1) |-> 0]
    /\ speed_bin' = [b \in 0..6 |-> 0]
    /\ i' = 0
    /\ UNCHANGED <<wrOutVars, wrCfgVars>>
    /\ UNCHANGED agoVars
    /\ UNCHANGED gelVars
    /\ UNCHANGED weekVars

\* one pass of the binning loop: sample i (from 0) is counted
BinSample ==
    /\ pc = "wr_bin"
    /\ i < Len(speed_vec)
    /\ LET speed     == speed_vec[i + 1]
           direction == direction_vec[i + 1]
       IN  IF speed = None \/ direction = None
           THEN /\ speed_bin' = [speed_bin EXCEPT ![0] = @ + 1]
                /\ UNCHANGED wind_bin
           ELSE IF CalmSpeed(speed, calm_limit)
           THEN /\ speed_bin' = [speed_bin EXCEPT ![0] = @ + 1]
                /\ UNCHANGED wind_bin
           ELSE /\ wind_bin' = [wind_bin EXCEPT
                                   ![SpeedBand(speed, speed_list)][BinNum(direction, petals)] = @ + 1]
                /\ UNCHANGED speed_bin
    /\ i' = i + 1
    /\ UNCHANGED <<pc, err, wrArgVars, dir_bin, wrOutVars, dsvVars, wrCfgVars>>
    /\ UNCHANGED agoVars
    /\ UNCHANGED gelVars
    /\ UNCHANGED weekVars

\* calc_windrose after its binning loop: the counts become percentages of the
\* samples, rounded; dir_bin counts the samples of each sector; the y axis
\* maximum follows from the largest sector; the percentages of each band are
\* added to speed_bin; the legend labels and the two series lists are built
WindrosePercent ==
    /\ pc = "wr_bin"
    /\ i = Len(speed_vec)
    /\ LET pcent_factor == PcentFactor(Len(speed_vec))
           label(b, units) ==
               [lower   |-> IF b = 0 THEN 0 ELSE round_int(speed_list[b - 1]),
                upper   |-> IF b = 0 THEN 0 ELSE round_int(speed_list[b]),
                units   |-> b # 0 /\ units,
                percent |-> IF show_band_percent
                            THEN Round(Mul(speed_bin'[b], pcent_factor), precision)
                            ELSE None]
       IN  /\ dir_bin' = [s \in 0..(petals - 1) |->
                             SumOver([b \in 0..6 |-> wind_bin[b][s]], 0..6)]
           /\ wind_bin' = [b \in 0..6 |-> [s \in 0..(petals - 1) |->
                              Round(Mul(pcent_factor, Whole(wind_bin[b][s])), precision)]]
           /\ max_y_axis' =
                 MaxYAxis(Round(Mul(pcent_factor, Whole(MaxOf(dir_bin'))), precision))
           /\ speed_bin' = [b \in 0..6 |->
                               Add(Whole(speed_bin[b]), SumNum(wind_bin'[b], 0..(petals - 1)))]
           /\ calm_percent' = Round(Mul(speed_bin'[0], pcent_factor), precision)
           /\ legend_labels' = [b \in 0..6 |-> label(b, TRUE)]
           /\ windrosejson' =
                 [j \in 1..6 |-> [name |-> legend_labels'[JsonBands[j]],
                                  data |-> wind_bin'[JsonBands[j]]]]
           /\ windrosenolabeljson' =
                 [j \in 1..6 |-> [name |-> label(JsonBands[j], FALSE),
                                  data |-> wind_bin'[JsonBands[j]]]]
    /\ IF call = "none"
       THEN /\ pc' = "wr_done"
            /\ UNCHANGED gelVars
       ELSE /\ pc' = "gel_loop"
            /\ sle_dict' =
                  [key \in DOMAIN sle_dict \cup {Key(period_list[done + 1])} |->
                      IF key = Key(period_list[done + 1])
                      THEN [max_y_axis          |-> max_y_axis',
                            calm_percent        |-> calm_percent',
                            legend_labels       |-> legend_labels',
                            windrosejson        |-> windrosejson',
                            windrosenolabeljson |-> windrosenolabeljson']
                      ELSE sle_dict[key]]
            /\ done' = done + 1
            /\ UNCHANGED <<call, archive, converter, period_list, first_dict>>
    /\ UNCHANGED <<err, i, wrArgVars, dsvVars, wrCfgVars>>
    /\ UNCHANGED agoVars
    /\ UNCHANGED weekVars

\* get_extension_list is called on a constructed wind rose: the period list is
\* read from the configuration and sle_dict is empty
GetExtensionList ==
    /\ pc = "wr_ready"
    /\ \E list \in PeriodLists, stop \in WrStops, records \in Archives,
          exists \in BOOLEAN, factor \in UnitFactors :
        /\ period_list' = list
        /\ wr_stop' = stop
        /\ archive' = records
        /\ table_exists' = exists
        /\ table' = IF exists THEN Table(SummaryDays) ELSE <<>>
        /\ converter' = factor
    /\ call' = "first"
    /\ done' = 0
    /\ sle_dict' = <<>>
    /\ pc' = "gel_loop"
    /\ UNCHANGED <<err, timespan, agg_list, sql_fields, cursor, time_vec, ret, wrCfgVars,
                   period, t_span, wr_source, speed_vec, direction_vec, speed_list,
                   wind_bin, speed_bin, dir_bin, i, wrOutVars, first_dict, agoVars>>
    /\ UNCHANGED weekVars

\* the head of the loop over _period_list: the period in seconds of the next
\* name is computed, and a period of a week or more sets the aggregate interval
\* of the instance, one of a nominal month or more also its aggregate type,
\* where the instance has none; calc_windrose is called next, and the locals
\* of its call before are gone
NextPeriod ==
    /\ pc = "gel_loop"
    /\ done < Len(period_list)
    /\ LET seconds == PeriodSeconds(period_list[done + 1], wr_stop)
       IN  /\ period' = seconds
           /\ agg_type' = IF seconds >= Month /\ agg_type = "None" THEN "avg" ELSE agg_type
           /\ agg_interval' =
                 CASE seconds >= Month /\ agg_interval = 0 -> 86400
                   [] seconds < Month /\ seconds >= Week /\ agg_interval = 0 -> 3600
                   [] OTHER -> agg_interval
    /\ t_span' = NoSpan
    /\ wr_source' = "none"
    /\ speed_vec' = <<>>
    /\ direction_vec' = <<>>
    /\ speed_list' = <<>>
    /\ wind_bin' = <<>>
    /\ speed_bin' = <<>>
    /\ dir_bin' = <<>>
    /\ i' = 0
    /\ max_y_axis' = 0
    /\ calm_percent' = None
    /\ legend_labels' = <<>>
    /\ windrosejson' = <<>>
    /\ windrosenolabeljson' = <<>>
    /\ pc' = "gel_calc"
    /\ UNCHANGED <<err, dsvVars, petals, directions, calm_limit, precision, speedfactor,
                   show_band_percent, source, self_dir, bullseye_size,
                   wr_stop, gelVars, agoVars>>
    /\ UNCHANGED weekVars

\* the loop over _period_list is done: [sle_dict] is returned
ReturnExtensionList ==
    /\ pc = "gel_loop"
    /\ done = Len(period_list)
    /\ first_dict' = IF call = "first" THEN sle_dict ELSE first_dict
    /\ pc' = "gel_done"
    /\ UNCHANGED <<err, dsvVars, wrCfgVars, wrRunVars, agoVars,
                   call, archive, converter, period_list, done, sle_dict>>
    /\ UNCHANGED weekVars

\* get_extension_list is called a second time on the same instance, with the
\* same time span and the same database
GetExtensionListAgain ==
    /\ pc = "gel_done"
    /\ call = "first"
    /\ call' = "second"
    /\ done' = 0
    /\ sle_dict' = <<>>
    /\ pc' = "gel_loop"
    /\ UNCHANGED <<err, dsvVars, wrCfgVars, wrRunVars, agoVars,
                   archive, converter, period_list, first_dict>>
    /\ UNCHANGED weekVars

\* HighchartsWeek.get_extension_list: every series is read with get_vector;
\* len() of the rain time vector raises TypeError when that vector is None;
\* the last rain time is adjusted and every series is zipped to JSON
WeekGetExtensionList ==
    /\ pc = "idle"
    /\ \E unknown \in UnknownSets, records \in WeekRecords, rain \in RainRecords,
          factor \in UnitFactors :
        LET vector(obs_type) ==
                get_vector(unknown, obs_type, IF obs_type = "rain" THEN rain ELSE records, factor)
            time_vector(obs_type) ==
                IF obs_type = "rain"
                THEN RainTimeVector(vector(obs_type).t_ms)
                ELSE vector(obs_type).t_ms
        IN  /\ week_unknown' = unknown
            /\ week_records' = records
            /\ rain_records' = rain
            /\ IF vector("rain").none
               THEN /\ err' = "TypeError"
                    /\ search_list_extension' = <<>>
               ELSE /\ err' = "none"
                    /\ search_list_extension' =
                          [key \in {WeekKey(WeekSeries[n]) : n \in 1..Len(WeekSeries)} |->
                              LET obs_type == CHOOSE o \in {WeekSeries[n] : n \in 1..Len(WeekSeries)} :
                                                  WeekKey(o) = key
                              IN  json_zip_vectors(vector(obs_type), time_vector(obs_type))]
    /\ pc' = "week_done"
    /\ UNCHANGED <<dsvVars, wrCfgVars, wrRunVars, agoVars, gelVars>>

\* a call of get_ago with a date and one of the two offsets
CallGetAgo ==
    /\ pc = "idle"
    /\ \E dt \in AgoDates, offset \in AgoOffsets :
        LET out == get_ago(dt, offset.d_years, offset.d_months)
        IN  /\ ago_dt' = dt
            /\ d_years' = offset.d_years
            /\ d_months' = offset.d_months
            /\ ago_ret' = out.ret
            /\ err' = out.err
    /\ pc' = "ago_done"
    /\ UNCHANGED <<dsvVars, wrCfgVars, wrRunVars>>
    /\ UNCHANGED gelVars
    /\ UNCHANGED weekVars

\* the caller is done with the result: nothing is kept between calls
Return ==
    /\ pc \in {"dsv_done", "wr_done", "wr_failed", "ago_done", "gel_done", "week_done"}
    /\ pc' = "idle"
    /\ err' = "none"
    /\ table_exists' = TRUE
    /\ table' = <<>>
    /\ timespan' = NoSpan
    /\ agg_list' = <<>>
    /\ sql_fields' = "none"
    /\ cursor' = "none"
    /\ time_vec' = <<>>
    /\ ret' = <<>>
    /\ petals' = 0
    /\ directions' = <<>>
    /\ calm_limit' = None
    /\ precision' = 0
    /\ speedfactor' = <<>>
    /\ show_band_percent' = TRUE
    /\ period' = 0
    /\ wr_stop' = 0
    /\ t_span' = NoSpan
    /\ wr_source' = "none"
    /\ speed_vec' = <<>>
    /\ direction_vec' = <<>>
    /\ speed_list' = <<>>
    /\ wind_bin' = <<>>
    /\ speed_bin' = <<>>
    /\ dir_bin' = <<>>
    /\ max_y_axis' = 0
    /\ calm_percent' = None
    /\ legend_labels' = <<>>
    /\ windrosejson' = <<>>
    /\ windrosenolabeljson' = <<>>
    /\ i' = 0
    /\ ago_dt' = NoDate
    /\ d_years' = 0
    /\ d_months' = 0
    /\ ago_ret' = NoDate
    /\ source' = ""
    /\ self_dir' = ""
    /\ agg_type' = "None"
    /\ agg_interval' = 0
    /\ bullseye_size' = 0
    /\ call' = "none"
    /\ archive' = <<>>
    /\ converter' = None
    /\ period_list' = <<>>
    /\ done' = 0
    /\ sle_dict' = <<>>
    /\ first_dict' = <<>>
    /\ week_unknown' = {}
    /\ week_records' = <<>>
    /\ rain_records' = <<>>
    /\ search_list_extension' = <<>>

Next ==
    \/ CallGetDaySummaryVectors
    \/ Construct
    \/ CalcWindrose
    \/ BinSample
    \/ WindrosePercent
    \/ GetExtensionList
    \/ NextPeriod
    \/ ReturnExtensionList
    \/ GetExtensionListAgain
    \/ WeekGetExtensionList
    \/ CallGetAgo
    \/ Return

Spec == Init /\ [][Next]_vars

----
\* Properties of get_day_summary_vectors

\* the aggregates get_day_summary_vectors knows
KnownAggs ==
    {"min", "max", "mintime", "maxtime", "sum", "count", "avg", "rms", "vecavg",
     "vecdir", "gustdir"}

\* a call of get_day_summary_vectors has returned its vectors
Returned == pc = "dsv_done" /\ err = "none"

\* how often agg is in the requested list
Occurrences(agg) == Cardinality({j \in 1..Len(agg_list) : agg_list[j] = agg})

\* the call has returned and the requested list names agg exactly once
ReturnedOnce(agg) == Returned /\ Occurrences(agg) = 1

\* the row of the table whose dateTime is t
RecAt(t) == CHOOSE rec \in {table[d] : d \in 1..Len(table)} : rec.dateTime = t

\* the compass bearing of the resultant (xsum, ysum): 90 - degrees(atan2(ysum, xsum)),
\* plus 360 when that is negative
Bearing(xsum, ysum) ==
    LET deg == 90 - Atan2Deg(ysum, xsum)
    IN  IF deg < 0 THEN Whole(deg + 360) ELSE Whole(deg)

\* C1: for every day record the vecdir value is null when xsum and ysum are both
\* zero, the compass bearing 90 - degrees(atan2(ysum, xsum)) (plus 360 when
\* negative) when both are non-zero, and null when exactly one of them is zero.
C1_VecdirCases ==
    ReturnedOnce("vecdir") =>
        /\ Len(ret["vecdir"]) = Len(time_vec)
        /\ \A r \in 1..Len(time_vec) :
              LET rec == RecAt(time_vec[r])
                  v   == ret["vecdir"][r]
              IN  /\ (rec.xsum = 0 /\ rec.ysum = 0) => v = None
                  /\ (rec.xsum # 0 /\ rec.ysum # 0) => v = Bearing(rec.xsum, rec.ysum)
                  /\ ((rec.xsum = 0) # (rec.ysum = 0)) => v = None

\* a returned vecdir vector with a north-westerly resultant (315 degrees) and with
\* a null for a resultant of which exactly one component is zero
C1_Witness ==
    /\ ReturnedOnce("vecdir")
    /\ \E r \in 1..Len(time_vec) :
          /\ RecAt(time_vec[r]).xsum = -1 /\ RecAt(time_vec[r]).ysum = 1
          /\ ret["vecdir"][r] = Whole(315)
    /\ \E r \in 1..Len(time_vec) :
          /\ RecAt(time_vec[r]).xsum = 0 /\ RecAt(time_vec[r]).ysum = 1
          /\ ret["vecdir"][r] = None

\* C2: a day record with xsum = 1 and ysum = 0 (a pure easterly resultant) yields
\* vecdir = 90.0, not null.
C2_EasterlyIs90 ==
    ReturnedOnce("vecdir") =>
        \A r \in 1..Len(time_vec) :
            (RecAt(time_vec[r]).xsum = 1 /\ RecAt(time_vec[r]).ysum = 0)
                => ret["vecdir"][r] = Whole(90)

\* C3: for every day record whose xsum and ysum are not both zero, the vecdir value
\* is a number d with 0 <= d < 360.
C3_VecdirInRange ==
    ReturnedOnce("vecdir") =>
        \A r \in 1..Len(time_vec) :
            LET rec == RecAt(time_vec[r])
                v   == ret["vecdir"][r]
            IN  ~(rec.xsum = 0 /\ rec.ysum = 0)
                    => IsNum(v) /\ Le(Whole(0), v) /\ Lt(v, Whole(360))

\* C4: for every day record the avg value is wsum / sumtime when count > 0 and null
\* when count is 0; the record with sum=50, wsum=500, sumtime=50, count=10 yields
\* exactly 10.
C4_AvgIsWeighted ==
    ReturnedOnce("avg") =>
        /\ Len(ret["avg"]) = Len(time_vec)
        /\ \A r \in 1..Len(time_vec) :
              LET rec == RecAt(time_vec[r])
                  v   == ret["avg"][r]
              IN  /\ rec.count > 0 =>
                        IsNum(v) /\ rec.sumtime # 0 /\ v.n * rec.sumtime = rec.wsum * v.d
                  /\ rec.count = 0 => v = None
                  /\ (rec.sum = 50 /\ rec.wsum = 500 /\ rec.sumtime = 50 /\ rec.count = 10)
                        => v = Whole(10)

\* a returned avg vector with the average 10 of the record sum=50, wsum=500,
\* sumtime=50, count=10 and with the null of a day without samples
C4_Witness ==
    /\ ReturnedOnce("avg")
    /\ \E r \in 1..Len(time_vec) :
          /\ RecAt(time_vec[r]).sum = 50 /\ RecAt(time_vec[r]).wsum = 500
          /\ RecAt(time_vec[r]).sumtime = 50 /\ RecAt(time_vec[r]).count = 10
          /\ ret["avg"][r] = Whole(10)
    /\ \E r \in 1..Len(time_vec) :
          RecAt(time_vec[r]).count = 0 /\ ret["avg"][r] = None

\* C5: get_day_summary_vectors never divides by zero, whatever the sum fields of a
\* record with count >= 0 are (count > 0 with sumtime = 0 included).
C5_NoDivisionByZero == pc = "dsv_done" => err # "ZeroDivisionError"

\* C6: for every timespan with start <= stop the query selects exactly the day
\* records with startOfDay(start) <= dateTime < stop: startOfDay(start) <= start,
\* the record of the calendar day containing start is included (when that day
\* starts before stop), no record of an earlier day is included, and a record
\* with dateTime = stop is excluded.
C6_QueryWindow ==
    Returned =>
        LET rows  == {table[d] : d \in 1..Len(table)}
            times == {time_vec[r] : r \in 1..Len(time_vec)}
        IN  /\ startOfDay(timespan.start) <= timespan.start
            /\ times = {rec.dateTime : rec \in
                           {row \in rows : /\ startOfDay(timespan.start) <= row.dateTime
                                           /\ row.dateTime < timespan.stop}}
            /\ Cardinality(times) = Len(time_vec)
            /\ \A rec \in rows :
                  /\ (/\ rec.dateTime <= timespan.start
                      /\ timespan.start < rec.dateTime + 86400
                      /\ rec.dateTime < timespan.stop) => rec.dateTime \in times
                  /\ rec.dateTime + 86400 <= timespan.start => rec.dateTime \notin times
                  /\ rec.dateTime = timespan.stop => rec.dateTime \notin times

\* a query that starts at noon of the second day and stops at the start of the
\* third: the record of the second day is returned, the record of the first is not
C6_Witness ==
    /\ Returned
    /\ Len(table) >= 2
    /\ timespan.start = 129600
    /\ timespan.stop = 172800
    /\ time_vec = <<86400>>

\* the requested list is non-empty and holds known aggregates only
KnownList == Len(agg_list) > 0 /\ \A j \in 1..Len(agg_list) : agg_list[j] \in KnownAggs

\* every requested aggregate has a vector as long as the time vector, and entry r
\* of it is the aggregate of the record whose dateTime is entry r of the time vector
Aligned ==
    \A j \in 1..Len(agg_list) :
        /\ agg_list[j] \in DOMAIN ret
        /\ Len(ret[agg_list[j]]) = Len(time_vec)
        /\ \A r \in 1..Len(time_vec) :
              ret[agg_list[j]][r] = Aggregate(RecAt(time_vec[r]), agg_list[j])

\* C7 (as claimed): for every non-empty list of known aggregates the call returns
\* one vector per requested aggregate, each as long as the time vector, entry i of
\* each derived from the record whose dateTime is entry i of the time vector.
C7_AlignedAnyList == (Returned /\ KnownList) => Aligned

\* C7 (amended): the same, for every non-empty list of known aggregates that names
\* no aggregate twice.
C7_AlignedDistinctList ==
    (Returned /\ KnownList /\ \A j \in 1..Len(agg_list) : Occurrences(agg_list[j]) = 1)
        => Aligned

\* three vectors of two entries each, returned with a time vector of two entries
C7_Witness ==
    /\ Returned
    /\ agg_list = <<"gustdir", "vecdir", "avg">>
    /\ Len(time_vec) = 2
    /\ Len(ret["avg"]) = 2
    /\ ret["gustdir"][2] = Whole(315)

\* the known aggregates of the requested list, in their order
KnownOf(aggs) == SelectSeq(aggs, LAMBDA agg : agg \in KnownAggs)

\* C8: an aggregate outside the known ones raises no error and gets a vector holding
\* null for every day record, while the known aggregates of the same list keep the
\* values they have without it.
C8_UnknownAggIsNull ==
    (pc = "dsv_done" /\ \E j \in 1..Len(agg_list) : agg_list[j] \notin KnownAggs) =>
        LET alone == GetDaySummaryVectors(table_exists, table, timespan, KnownOf(agg_list))
        IN  /\ err = alone.err
            /\ err = "none" =>
                  /\ time_vec = alone.time_vec
                  /\ \A j \in 1..Len(agg_list) :
                        LET agg == agg_list[j]
                        IN  /\ agg \in DOMAIN ret
                            /\ agg \in KnownAggs => ret[agg] = alone.ret[agg]
                            /\ agg \notin KnownAggs =>
                                  /\ Len(ret[agg]) = Len(time_vec) * Occurrences(agg)
                                  /\ \A r \in 1..Len(ret[agg]) : ret[agg][r] = None

\* max, an unknown aggregate and vecdir asked of two days: the unknown one gets two
\* nulls, max and vecdir their values
C8_Witness ==
    /\ Returned
    /\ agg_list = <<"max", "foo", "vecdir">>
    /\ Len(time_vec) = 2
    /\ ret["foo"] = <<None, None>>
    /\ ret["max"][1] = Whole(8)
    /\ ret["vecdir"][2] = Whole(45)

----
\* Properties of calc_windrose

\* sample s (from 1) is calm: no speed, no direction, or a speed of at most the
\* calm limit
SampleCalm(s) ==
    \/ speed_vec[s] = None
    \/ direction_vec[s] = None
    \/ speed_vec[s].n * calm_limit.d <= calm_limit.n * speed_vec[s].d

\* the sector, of p sectors of 360/p degrees each centred on their named
\* directions, that holds direction (in [0, 360)): floor((direction + 180/p) / (360/p)) mod p
NamedSector(direction, p) ==
    ((direction.n * p + 180 * direction.d) \div (360 * direction.d)) % p

\* the samples counted in a sector, over all bands
SectorCount(sector) == SumOver([b \in 0..6 |-> wind_bin[b][sector]], 0..6)

\* C9: for a petal count of 4, 8 or 16 a non-calm sample is counted in the sector
\* centred on its named compass direction, each sector spanning 360/petals degrees;
\* with 8 petals a direction of 45 degrees is counted under NE.
C9_SectorOfDirection ==
    (pc = "wr_bin" /\ petals \in {4, 8, 16}) =>
        /\ \A sector \in 0..(petals - 1) :
              SectorCount(sector) =
                  Cardinality({s \in 1..i : /\ ~SampleCalm(s)
                                            /\ NamedSector(direction_vec[s], petals) = sector})
        /\ (petals = 8 /\ \E s \in 1..i : ~SampleCalm(s) /\ direction_vec[s] = Whole(45)) =>
              \E sector \in 0..(petals - 1) :
                  directions[sector + 1] = "NE" /\ SectorCount(sector) >= 1

\* C10: a sample is counted as calm, and in no sector, exactly when its speed is
\* null, its direction is null or its speed is at most calm_limit (a speed equal
\* to calm_limit included, whatever the direction).
C10_CalmExactly ==
    pc = "wr_bin" =>
        LET calm == Cardinality({s \in 1..i : SampleCalm(s)})
        IN  /\ speed_bin[0] = calm
            /\ \A b \in 1..6 : speed_bin[b] = 0
            /\ SumOver([sector \in 0..(petals - 1) |-> SectorCount(sector)],
                       0..(petals - 1)) = i - calm

\* two samples are binned: the first has a direction and a speed equal to the calm
\* limit and is counted as calm, the second is above the limit and is counted in
\* a sector
C10_Witness ==
    /\ pc = "wr_bin"
    /\ i = 2
    /\ direction_vec[1] # None
    /\ speed_vec[1] = calm_limit
    /\ ~SampleCalm(2)
    /\ speed_bin[0] = 1
    /\ \E b \in 1..6, sector \in 0..(petals - 1) : wind_bin[b][sector] = 1

\* the samples counted in a band, over all sectors
BandCount(b) == SumOver([sector \in 0..(petals - 1) |-> wind_bin[b][sector]], 0..(petals - 1))

\* the band boundaries are in order
NonDecreasing(list) == \A b \in 1..6 : Le(list[b - 1], list[b])

\* the samples done that are not calm and whose speed is above low and at most high
CountedBetween(low, high) ==
    Cardinality({s \in 1..i : /\ ~SampleCalm(s)
                              /\ Lt(low, speed_vec[s])
                              /\ Le(speed_vec[s], high)})

BoundariesSet == pc \in {"wr_bin", "wr_done"} /\ speed_list # <<>>

\* the speeds of the speed vector that are not null
Speeds == {speed_vec[s] : s \in {t \in 1..Len(speed_vec) : speed_vec[t] # None}}

\* the largest speed that is not null
LargestSpeed == CHOOSE m \in Speeds : \A v \in Speeds : Le(v, m)

\* the multiples of 10 up to the first one above v, for v >= 0
MultiplesOfTen(v) == {10 * q : q \in 0..(Trunc(Div(v, Whole(10))) + 1)}

\* the smallest multiple of 10 that is at least v
LeastMultipleAtLeast(v) ==
    CHOOSE m \in MultiplesOfTen(v) :
        Le(v, Whole(m)) /\ \A n \in MultiplesOfTen(v) : Le(v, Whole(n)) => m <= n

\* the smallest multiple of 10 that is greater than v
LeastMultipleAbove(v) ==
    CHOOSE m \in MultiplesOfTen(v) :
        Lt(v, Whole(m)) /\ \A n \in MultiplesOfTen(v) : Lt(v, Whole(n)) => m <= n

\* C12 as stated: the band boundaries are the speedfactor fractions of the largest
\* speed rounded up to a multiple of 10 (ceil(max_speed / 10) * 10), so that a
\* maximum of exactly 10 gives a scale of 10.
C12_ScaleIsCeiling ==
    (BoundariesSet /\ Speeds # {}) =>
        \A b \in 1..6 :
            speed_list[b] = Mul(speedfactor[b], Whole(LeastMultipleAtLeast(LargestSpeed)))

\* C12: the band boundaries are the speedfactor fractions of the smallest multiple
\* of 10 that is greater than the largest speed, (floor(max_speed / 10) + 1) * 10,
\* where the largest speed is 10 when every speed is null: a maximum of 5 gives a
\* scale of 10 and a maximum of exactly 10 a scale of 20.
C12_ScaleIsNextMultiple ==
    BoundariesSet =>
        LET max_speed == IF Speeds = {} THEN Whole(10) ELSE LargestSpeed
        IN  /\ speed_list[0] = Whole(0)
            /\ \A b \in 1..6 :
                  speed_list[b] = Mul(speedfactor[b], Whole(LeastMultipleAbove(max_speed)))

\* the largest speed is exactly 10 and the top boundary, the whole scale, is 20
C12_Witness ==
    /\ BoundariesSet
    /\ Speeds # {}
    /\ LargestSpeed = Whole(10)
    /\ speedfactor[6] = Whole(1)
    /\ speed_list[6] = Whole(20)

\* calc_windrose has returned its result
WindroseDone == pc = "wr_done" /\ err = "none"

RECURSIVE Pow10(_)
\* 10 to the power e, for e >= 0
Pow10(e) == IF e = 0 THEN 1 ELSE 10 * Pow10(e - 1)

\* a percentage in units of 10^-precision: a whole number, as every percentage of
\* the result is rounded to the precision
Units(v) == (v.n * Pow10(precision)) \div v.d

\* the sum of all (band, sector) percentages of the result and the calm
\* percentage, in units of 10^-precision
TotalPercent ==
    SumOver([b \in 0..6 |->
                SumOver([sector \in 0..(petals - 1) |-> Units(wind_bin[b][sector])],
                        0..(petals - 1))], 0..6)
        + Units(calm_percent)

\* C13: for every non-empty sample set the sum of all (band x sector) percentages of
\* the result plus the calm percentage is 100, within the rounding tolerance
\* petals x 7 x 10^-precision.
C13_PercentagesSumTo100 ==
    (WindroseDone /\ Len(speed_vec) > 0) =>
        /\ \A b \in 0..6, sector \in 0..(petals - 1) :
              wind_bin[b][sector] = Num(Units(wind_bin[b][sector]), Pow10(precision))
        /\ calm_percent = Num(Units(calm_percent), Pow10(precision))
        /\ Abs(TotalPercent - 100 * Pow10(precision)) <= petals * 7

\* three samples, one calm and two in different cells, at one decimal place: each
\* share is rounded to 33.3 and the total is 99.9
C13_Witness ==
    /\ WindroseDone
    /\ Len(speed_vec) = 3
    /\ precision = 1
    /\ calm_percent = Num(333, 10)
    /\ \E b \in 1..6, sector \in 0..(petals - 1) : wind_bin[b][sector] = Num(333, 10)
    /\ TotalPercent = 999

\* the largest sector's percentage of all samples: its count over all bands, times
\* 100 / samples, rounded to the precision
LargestSectorPercent ==
    Round(Mul(PcentFactor(Len(speed_vec)), Whole(MaxOf(dir_bin))), precision)

\* the sum over all bands of the percentages of a sector
SectorPercent(sector) == SumNum([b \in 0..6 |-> wind_bin[b][sector]], 0..6)

\* C14 as stated: the y axis maximum is the smallest multiple of 10 that is greater
\* than or equal to the largest sector's total percentage, the sum over all bands of
\* that sector.
C14_AxisIsCeiling ==
    (WindroseDone /\ Len(speed_vec) > 0) =>
        \E sector \in 0..(petals - 1) :
            /\ \A other \in 0..(petals - 1) : Le(SectorPercent(other), SectorPercent(sector))
            /\ max_y_axis = LeastMultipleAtLeast(SectorPercent(sector))

\* C14: the y axis maximum is the smallest multiple of 10 that is greater than the
\* largest sector's percentage of all samples (its sample count over all bands as a
\* rounded percentage): 20 percent gives 30 and 23 percent gives 30.
C14_AxisIsNextMultiple ==
    (WindroseDone /\ Len(speed_vec) > 0) =>
        /\ \A sector \in 0..(petals - 1) :
              dir_bin[sector] =
                  Cardinality({s \in 1..Len(speed_vec) :
                                  /\ ~SampleCalm(s)
                                  /\ BinNum(direction_vec[s], petals) = sector})
        /\ max_y_axis = LeastMultipleAbove(LargestSectorPercent)

\* two samples of which one is in a sector: the largest sector holds 50 percent
\* and the y axis maximum is 60
C14_Witness ==
    /\ WindroseDone
    /\ Len(speed_vec) = 2
    /\ MaxOf(dir_bin) = 1
    /\ LargestSectorPercent = Whole(50)
    /\ max_y_axis = 60

\* C15: when band percentages are shown, the percentage in the legend label of each
\* speed band 1..6 is that band's overall percentage of all samples, the sum of the
\* band's per-sector percentages, whatever the number of samples.
C15_LegendPercentOfBand ==
    (WindroseDone /\ show_band_percent) =>
        \A b \in 1..6 :
            legend_labels[b].percent =
                Round(SumNum(wind_bin[b], 0..(petals - 1)), precision)

\* C16: when the vectors read for the window hold no sample, calc_windrose does not
\* end in a division by zero: the empty case is guarded.
C16_EmptyIsGuarded ==
    (BoundariesSet /\ pc = "wr_done" /\ Len(speed_vec) = 0) => err # "ZeroDivisionError"

\* C17: when the speed vector has at least one sample and every speed is null,
\* calc_windrose raises nothing and sets its boundaries from a maximum speed of 10;
\* every sample is counted as calm, every (band, sector) percentage is 0 and the
\* calm percentage is 100.
C17_AllNullSpeeds ==
    (BoundariesSet /\ Len(speed_vec) >= 1 /\ Speeds = {}) =>
        /\ err = "none"
        /\ \A b \in 1..6 :
              speed_list[b] = Mul(speedfactor[b], Whole(LeastMultipleAbove(Whole(10))))
        /\ pc = "wr_bin" =>
              /\ speed_bin[0] = i
              /\ \A b \in 0..6, sector \in 0..(petals - 1) : wind_bin[b][sector] = 0
        /\ pc = "wr_done" =>
              /\ \A b \in 0..6, sector \in 0..(petals - 1) : wind_bin[b][sector] = Whole(0)
              /\ calm_percent = Whole(100)

\* a wind rose of two samples without a speed has been computed
C17_Witness ==
    /\ WindroseDone
    /\ Len(speed_vec) = 2
    /\ Speeds = {}
    /\ calm_percent = Whole(100)
    /\ windrosejson # <<>>

\* calc_windrose has read, or tried to read, its vectors
VectorsRead == pc \in {"wr_bin", "wr_done"} /\ wr_source # "none"

\* C18: the source of calc_windrose follows from the period alone. Up to 604800
\* seconds, 604800 included, the speed and direction series of the archive are read
\* over [stop - period + 1, stop]; above, the per-day 'avg' speed and the per-day
\* 'vecdir' direction of the day summaries are read over [stop - period, stop].
C18_SourceByPeriod ==
    VectorsRead =>
        /\ period <= 604800 =>
              /\ wr_source = "series"
              /\ t_span = [start |-> wr_stop - period + 1, stop |-> wr_stop]
        /\ period > 604800 =>
              /\ wr_source = "day_summary"
              /\ t_span = [start |-> wr_stop - period, stop |-> wr_stop]
              /\ timespan = t_span
              /\ err = "OperationalError" <=> ~table_exists
              /\ BoundariesSet =>
                    LET speed == GetDaySummaryVectors(table_exists, table, t_span, <<"avg">>)
                        dir   == GetDaySummaryVectors(table_exists, table, t_span, <<"vecdir">>)
                    IN  /\ \E factor \in UnitFactors :
                              speed_vec = Convert(speed.ret["avg"], factor)
                        /\ direction_vec = dir.ret["vecdir"]

\* a period of a week and a second: the samples are the days of the day summaries,
\* the first with an average speed of 3.5 and a vector direction of 315 degrees
C18_Witness ==
    /\ pc = "wr_bin"
    /\ period = 604801
    /\ wr_source = "day_summary"
    /\ Len(speed_vec) = 2
    /\ speed_vec[1] = Num(7, 2)
    /\ direction_vec[1] = Whole(315)

\* C19: the series of windrosejson are the percentage tables of the bands from the
\* highest band, 6, down to the lowest, 1, each with one percentage per sector; the
\* series of windrosenolabeljson are in the same order and hold the same tables.
C19_SeriesHighestFirst ==
    WindroseDone =>
        /\ Len(windrosejson) = 6
        /\ Len(windrosenolabeljson) = 6
        /\ \A j \in 1..6 :
              /\ windrosejson[j].data = wind_bin[7 - j]
              /\ DOMAIN windrosejson[j].data = 0..(petals - 1)
              /\ windrosejson[j].name = legend_labels[7 - j]
              /\ windrosenolabeljson[j].data = windrosejson[j].data
              /\ windrosenolabeljson[j].name.upper = windrosejson[j].name.upper
              /\ windrosenolabeljson[j].name.lower = windrosejson[j].name.lower

\* a wind rose with a sample in band 4 and none in band 3: the third series holds
\* a percentage, the fourth none, and the first series is the band up to 10
C19_Witness ==
    /\ WindroseDone
    /\ \E sector \in 0..(petals - 1) :
          /\ windrosejson[3].data[sector] = Whole(100)
          /\ windrosenolabeljson[3].data[sector] = Whole(100)
    /\ \A sector \in 0..(petals - 1) : windrosejson[4].data[sector] = Whole(0)
    /\ windrosejson[1].name.upper = 10
    /\ windrosejson[6].name.upper = 1

\* the wind rose has been constructed
Constructed == pc \in {"wr_ready", "wr_bin", "wr_done"}

\* C20: after construction from any configuration the speedfactor list has exactly
\* 7 entries, is non-decreasing and lies in [0, 1], and the petal count is 4, 8 or
\* 16, so that there is one sector label per column of the percentage table.
C20_EffectiveConfiguration ==
    Constructed =>
        /\ DOMAIN speedfactor = 0..6
        /\ \A b \in 0..6 : Le(Whole(0), speedfactor[b]) /\ Le(speedfactor[b], Whole(1))
        /\ NonDecreasing(speedfactor)
        /\ petals \in {4, 8, 16}
        /\ Len(directions) = petals

----
\* The cursor of get_day_summary_vectors

\* C30: when get_day_summary_vectors is left its cursor is closed, after a normal
\* return and also when the query or an aggregate raised; a raised exception
\* reaches the caller, as when the day-summary table does not exist, and then no
\* vector is returned.
C30_CursorClosed ==
    pc = "dsv_done" =>
        /\ cursor = "closed"
        /\ ~table_exists => err = "OperationalError"
        /\ err # "none" => time_vec = <<>> /\ ret = <<>>

\* the query of a table that does not exist has raised and the cursor is closed
C30_Witness ==
    /\ pc = "dsv_done"
    /\ ~table_exists
    /\ err = "OperationalError"
    /\ cursor = "closed"

----
\* The binning loop

\* the samples counted so far: the calm count and every count of wind_bin
Counted ==
    speed_bin[0] + SumOver([b \in 0..6 |-> SumOver(wind_bin[b], 0..(petals - 1))], 0..6)

\* directions of [0, 360): the whole degrees and the quarter degrees below 360
DirectionGrid ==
    {Whole(d) : d \in 0..359} \cup {Num(4 * 359 + q, 4) : q \in 1..3}

\* C26: in the binning loop of calc_windrose the calm count plus all counts of
\* wind_bin is the number of samples processed so far, and the sector index of
\* every direction of [0, 360), and of every direction read, is in 0..petals-1.
C26_CountedOnce ==
    /\ pc = "wr_ready" =>
          \A d \in DirectionGrid : BinNum(d, petals) \in 0..(petals - 1)
    /\ pc = "wr_bin" =>
          /\ Counted = i
          /\ \A s \in 1..Len(direction_vec) :
                direction_vec[s] # None =>
                    BinNum(direction_vec[s], petals) \in 0..(petals - 1)

\* the loop has processed three samples, one of them calm or null and one of
\* them counted in a sector bin
C26_Witness ==
    /\ pc = "wr_bin"
    /\ i = 3
    /\ speed_bin[0] >= 1
    /\ \E b \in 1..6, s \in 0..(petals - 1) : wind_bin[b][s] >= 1

----
\* get_ago

\* the last day of a month of the calendar
LastDay(year, month) ==
    CASE month \in {4, 6, 9, 11} -> 30
      [] month = 2 ->
            IF year % 400 = 0 THEN 29
            ELSE IF year % 100 = 0 THEN 28
            ELSE IF year % 4 = 0 THEN 29 ELSE 28
      [] OTHER -> 31

\* a date of the calendar
ValidDate(dt) ==
    /\ dt.year >= 1
    /\ dt.month \in 1..12
    /\ dt.day \in 1..LastDay(dt.year, dt.month)

\* the month that d_years and d_months before the month of dt
TargetMonth ==
    IF d_months = -1
    THEN IF ago_dt.month = 1
         THEN [year |-> ago_dt.year - 1, month |-> 12]
         ELSE [year |-> ago_dt.year, month |-> ago_dt.month - 1]
    ELSE [year |-> ago_dt.year - 1, month |-> ago_dt.month]

\* C23: for a valid date and d_months = -1 or d_years = -1, get_ago does not
\* raise and returns a valid date in the month before (January rolls over to
\* December of the year before) or in the same month of the year before; the
\* day is the day of dt when the target month has it, else the last day of the
\* target month: 31 March gives 28 February, 29 in a leap year, and 'year' on 29
\* February gives 28 February.
C23_ValidDateAgo ==
    pc = "ago_done" =>
        /\ err = "none"
        /\ ValidDate(ago_ret)
        /\ ago_ret.year = TargetMonth.year
        /\ ago_ret.month = TargetMonth.month
        /\ ago_ret.day = IF ago_dt.day <= LastDay(TargetMonth.year, TargetMonth.month)
                         THEN ago_dt.day
                         ELSE LastDay(TargetMonth.year, TargetMonth.month)
        /\ (d_months = -1 /\ ago_dt.month = 3 /\ ago_dt.day = 31) =>
              /\ ago_ret.month = 2
              /\ ago_ret.day = IF ago_dt.year \in {2000, 2024} THEN 29 ELSE 28
        /\ (d_years = -1 /\ ago_dt.month = 2 /\ ago_dt.day = 29) =>
              ago_ret.month = 2 /\ ago_ret.day = 28

\* 'month' on 31 March of a leap year has given 29 February
C23_Witness ==
    /\ pc = "ago_done"
    /\ ago_dt = [year |-> 2024, month |-> 3, day |-> 31]
    /\ d_months = -1
    /\ ago_ret = [year |-> 2024, month |-> 2, day |-> 29]

----
\* The construction of the wind rose

\* C21: the construction of the wind rose never raises: it never ends with an
\* exception, whatever text the petal count, the precision, the bullseye size
\* or the calm limit is configured with.
C21_ConstructionNeverRaises == pc # "wr_failed"

\* C22: a wind rose is computed from 'windSpeed' or 'windGust' only, any other
\* configured source being replaced by 'windSpeed' with 'windDir', and reading
\* its series never raises UnknownType.
C22_UnknownSourceIsWindSpeed ==
    Constructed =>
        /\ source \in {"windSpeed", "windGust"}
        /\ err # "UnknownType"

\* C28: the direction observation is paired with the speed source: 'windDir'
\* for 'windSpeed' and 'windGustDir' for 'windGust'.
C28_DirectionPairedWithSource ==
    Constructed =>
        /\ source = "windSpeed" => self_dir = "windDir"
        /\ source = "windGust" => self_dir = "windGustDir"

----
\* get_extension_list of the wind rose

\* a wind rose instance exists
InstanceAlive == pc \in {"wr_ready", "wr_bin", "wr_done", "gel_loop", "gel_calc", "gel_done"}

\* C25: no step of get_extension_list or calc_windrose changes a configuration
\* field of the instance, agg_type and agg_interval included: every field keeps
\* the value it had at the end of construction.
C25_ConfigurationReadOnly ==
    [][(InstanceAlive /\ InstanceAlive') => UNCHANGED wrCfgVars]_vars

\* the samples calc_windrose has to read for a period name: the archive records
\* of the last period seconds, or the days of the day summaries
VectorsOf(name) ==
    LET seconds == PeriodSeconds(name, wr_stop)
        span    == [start |-> wr_stop - seconds, stop |-> wr_stop]
        inside  == SelectSeq(archive, LAMBDA r : r.ago < seconds)
        speed   == GetDaySummaryVectors(table_exists, table, span, <<"avg">>).ret["avg"]
        vecdir  == GetDaySummaryVectors(table_exists, table, span, <<"vecdir">>).ret["vecdir"]
    IN  IF seconds <= 604800
        THEN [n \in 1..Len(inside) |->
                 [speed     |-> IF inside[n].sample.speed = None THEN None
                                ELSE Mul(inside[n].sample.speed, converter),
                  direction |-> inside[n].sample.direction]]
        ELSE [n \in 1..Len(speed) |->
                 [speed     |-> IF speed[n] = None THEN None ELSE Mul(speed[n], converter),
                  direction |-> vecdir[n]]]

\* the percentage of band b and sector s of the samples vec under the
\* configuration of the instance
PercentOf(vec, b, s) ==
    LET speeds == [n \in 1..Len(vec) |-> vec[n].speed]
        bounds == SpeedList(speedfactor, MaxSpeedRange(MaxSpeed(speeds)))
        counted == {n \in 1..Len(vec) :
                       /\ vec[n].speed # None
                       /\ vec[n].direction # None
                       /\ ~CalmSpeed(vec[n].speed, calm_limit)
                       /\ SpeedBand(vec[n].speed, bounds) = b
                       /\ BinNum(vec[n].direction, petals) = s}
    IN  Round(Mul(PcentFactor(Len(vec)), Whole(Cardinality(counted))), precision)

\* C27: the entries get_extension_list returns are those of its period list,
\* the series of an entry are the percentages of the samples of its period
\* alone, whatever other periods are in the list and whatever their order, and
\* a second call on the same instance returns the entries of the first.
C27_IndependentOfOtherPeriods ==
    pc = "gel_done" =>
        /\ DOMAIN sle_dict = {Key(period_list[j]) : j \in 1..Len(period_list)}
        /\ \A j \in 1..Len(period_list) :
              LET wr_dict == sle_dict[Key(period_list[j])]
                  vec     == VectorsOf(period_list[j])
              IN  \A b \in 1..6 :
                      /\ wr_dict.windrosejson[b].data =
                            [s \in 0..(petals - 1) |-> PercentOf(vec, JsonBands[b], s)]
                      /\ wr_dict.windrosenolabeljson[b].data = wr_dict.windrosejson[b].data
        /\ call = "second" => sle_dict = first_dict

\* a second call with the periods 'year' and 'day' has returned, the first call
\* having set the aggregation of the instance, and the two entries differ
C27_Witness ==
    /\ pc = "gel_done"
    /\ call = "second"
    /\ period_list = <<"year", "day">>
    /\ agg_type = "avg"
    /\ agg_interval = 86400
    /\ source = "windSpeed"
    /\ sle_dict["wryear"] # sle_dict["wrday"]

----
\* The week search list

\* C24: the week search list does not fail when an observation type is unknown,
\* rain included: the JSON value of an unknown type is null and that of every
\* other type is produced.
C24_UnknownSeriesIsNull ==
    pc = "week_done" =>
        /\ err = "none"
        /\ \A n \in 1..Len(WeekSeries) :
              search_list_extension[WeekKey(WeekSeries[n])].null
                  <=> WeekSeries[n] \in week_unknown

\* the times of the rain pairs of the returned dictionary
RainTimes ==
    [s \in 1..Len(search_list_extension["rainWeekjson"].pairs) |->
        search_list_extension["rainWeekjson"].pairs[s][1]]

\* the last rain interval is a partial hour
PartialHour ==
    /\ Len(rain_records) >= 2
    /\ rain_records[Len(rain_records)].stop < rain_records[Len(rain_records) - 1].stop + 3600

\* C29: when the rain series has two intervals or more and the last is a
\* partial hour, the last rain time emitted is 3600000 ms after the one before
\* and the other times are the stop times in milliseconds; otherwise every time
\* is the stop time in milliseconds.
C29_PartialHourMoved ==
    (pc = "week_done" /\ err = "none") =>
        /\ Len(RainTimes) = Len(rain_records)
        /\ \A s \in 1..Len(rain_records) :
              RainTimes[s] =
                  IF PartialHour /\ s = Len(rain_records)
                  THEN (rain_records[s - 1].stop + 3600) * 1000
                  ELSE rain_records[s].stop * 1000

====
